---- MODULE Spec2Model ----
(***************************************************************************)
(* Raindrop -> Notion sync worker.                                         *)
(*                                                                         *)
(* Two request handlers share one Notion database (the Destination):       *)
(*   /api/sync       incremental create/update of rows (api/sync.ts)       *)
(*   /api/reconcile  nightly set difference: moved / deleted / archived    *)
(* The Raindrop collection (the Source) and the human who locks rows are   *)
(* the environment.                                                        *)
(*                                                                         *)
(* Time is counted in minutes since the epoch; an ISO timestamp is the     *)
(* number of minutes it denotes, an absent timestamp is NoTime.            *)
(***************************************************************************)
EXTENDS Integers, Sequences, FiniteSets, TLC

VARIABLES
    source,    \* Raindrop: id -> [place, created, lastUpdate]
    dest,      \* Notion database: sequence of rows, pageId = index
    clock,     \* wall clock, minutes
    cfg,       \* process.env knobs of the deployment
    pc,        \* per invocation slot: position in the handler
    loc,       \* per invocation slot: the handler's local variables
    call,      \* the Destination write issued by the last step, NoCall if it issued none
    prev,      \* history: the last 200 response, kept while the Source and the locks stay as they were
    changes    \* history: how many changes the Raindrop and Notion users have made

vars == <<source, dest, clock, cfg, pc, loc, call, prev, changes>>

----------------------------------------------------------------------------
(* Bounds of the model *)

MaxItems == 2          \* Raindrop identifiers 1..MaxItems
MaxTicks == 2          \* the clock advances at most this many times
MaxChanges == 3        \* the users change the Source or a Lock at most this many times

(* Program constants *)

LIMIT_DEF == 50        \* toIntInRange(getQP(req.query,'limit'), 50, 1, 500)
LIMIT_MIN == 1
LIMIT_MAX == 500
LOOKBACK_HOURS_DEF == 48        \* envInt('LOOKBACK_HOURS', 48)
OVERLAP_MINUTES_DEF == 15       \* envInt('OVERLAP_MINUTES', 15)
PER_PAGE_DEF == 50              \* envInt('PER_PAGE', 50)
MAX_PAGES_DEF == 10             \* envInt('MAX_PAGES', 10) in api/sync.ts
MAX_PAGES_REC_DEF == 200        \* envInt('MAX_PAGES', 200) in api/reconcile.ts
CONSECUTIVE_HITS_STOP_DEF == 50 \* envInt('CONSECUTIVE_HITS_STOP', 50)
DELETE_GRACE_HOURS_DEF == 24    \* envInt('DELETE_GRACE_HOURS', 24)
NOTION_QUERY_CHUNK == 25
NOTION_PAGE_SIZE == 100   \* page_size of the batched query: one page is read, has_more is ignored

(* Granularity of the modelled clock *)
HourMinutes == 60 * 1
DayMinutes == 24 * HourMinutes
TickMinutes == 12 * HourMinutes

NoTime == 0 - 1        \* an absent (undefined) timestamp
NoParam == 0 - 1       \* an absent or non-numeric ?limit= query parameter
NoEnv == 0 - 1         \* an unset environment variable

Ids == 1..MaxItems
Procs == {1, 2}        \* invocation slots (a second one only runs in overlapping schedules)

Min(a, b) == IF a < b THEN a ELSE b
Max(a, b) == IF a > b THEN a ELSE b
Range(s) == {s[i] : i \in 1..Len(s)}
Take(s, n) == SubSeq(s, 1, Min(n, Len(s)))

\* the members of a set of numbers in ascending order
Ascending(S) ==
    LET below == [x \in S |-> Cardinality({y \in S : y < x})]
    IN [k \in 1..Cardinality(S) |-> CHOOSE x \in S : below[x] = k - 1]

\* the two lists joined end to end, a repeated key kept twice: the variant the
\* union of the passes (C11) must tell apart
SeqConcat(s, t) == s \o t

\* for (x of t) map.set(x, ...): a Map keeps a key at the position of its first insertion,
\* so the keys of s stay and the keys of t that s lacks follow in the order of t
SeqUnion(s, t) ==
    LET fresh == {i \in 1..Len(t) :
                     t[i] \notin Range(s) /\ \A j \in 1..(i - 1) : t[j] # t[i]}
        pos == Ascending(fresh)
    IN s \o [k \in 1..Len(pos) |-> t[pos[k]]]

----------------------------------------------------------------------------
(* Helpers of api/sync.ts and api/reconcile.ts *)

\* toIntInRange(s, def, min, max): parseInt, default when not finite, else clamp
toIntInRange(s, def, min, max) ==
    IF s = NoParam THEN def ELSE Max(min, Min(max, s))

\* envInt(name, def): the variable's number, def when unset
envInt(v, def) == IF v = NoEnv THEN def ELSE v

\* newerThan with "not older" in place of "later": the variant the freshness rule (C4)
\* must tell apart
newerOrSame(a, b) ==
    IF a = NoTime THEN FALSE
    ELSE IF b = NoTime THEN TRUE
    ELSE a >= b

\* newerThan(a, b): !a -> false, !b -> true, else a later than b
newerThan(a, b) ==
    IF a = NoTime THEN FALSE
    ELSE IF b = NoTime THEN TRUE
    ELSE a > b

\* isoDateOnly(d): the YYYY-MM-DD prefix, i.e. the UTC day number
isoDateOnly(d) == d \div DayMinutes

\* since = now - (LOOKBACK_HOURS*60 + OVERLAP_MINUTES) minutes
LOOKBACK_HOURS == envInt(cfg.LOOKBACK_HOURS, LOOKBACK_HOURS_DEF)
OVERLAP_MINUTES == envInt(cfg.OVERLAP_MINUTES, OVERLAP_MINUTES_DEF)
PER_PAGE == envInt(cfg.PER_PAGE, PER_PAGE_DEF)
MAX_PAGES == envInt(cfg.MAX_PAGES, MAX_PAGES_DEF)
MAX_PAGES_REC == envInt(cfg.MAX_PAGES, MAX_PAGES_REC_DEF)
CONSECUTIVE_HITS_STOP == envInt(cfg.CONSECUTIVE_HITS_STOP, CONSECUTIVE_HITS_STOP_DEF)
DELETE_GRACE_HOURS == envInt(cfg.DELETE_GRACE_HOURS, DELETE_GRACE_HOURS_DEF)
\* String.prototype.toLowerCase on the values a deployment sets
toLowerCase(s) ==
    IF s \in {"archive", "Archive", "ARCHIVE"} THEN "archive"
    ELSE IF s \in {"off", "Off", "OFF"} THEN "off"
    ELSE s

\* (process.env.DELETE_MODE || 'archive').toLowerCase()
DELETE_MODE == toLowerCase(IF cfg.DELETE_MODE = "" THEN "archive" ELSE cfg.DELETE_MODE)

\* the settings without which the worker cannot run (process.env.X is undefined or '')
Required ==
    {"RAINDROP_COLLECTION_ID", "RAINDROP_ACCESS_TOKEN", "NOTION_API_TOKEN", "NOTION_DATABASE_ID"}

\* if (!RAINDROP_COLLECTION_ID) throw new Error('Missing RAINDROP_COLLECTION_ID')
HasCollectionId == "RAINDROP_COLLECTION_ID" \notin cfg.missing

\* getRaindropToken(): throws 'Missing RAINDROP_ACCESS_TOKEN' before the fetch is issued
HasRaindropToken == "RAINDROP_ACCESS_TOKEN" \notin cfg.missing

\* new Client({ auth: NOTION_TOKEN }) and database_id: NOTION_DB_ID are not tested by
\* the worker: without them the request is sent and the Destination rejects it
NotionReady == {"NOTION_API_TOKEN", "NOTION_DATABASE_ID"} \cap cfg.missing = {}

Since(now) == now - (LOOKBACK_HOURS * 60 + OVERLAP_MINUTES)

\* the grace test with "more than" in place of "at least": the variant the grace
\* state machine (C5) must tell apart
HoursSinceMoreThan(iso, h) ==
    IF iso = NoTime THEN TRUE ELSE (clock - iso) > h * HourMinutes

\* hoursSince(iso) >= h, with hoursSince = (Date.now() - t) / 36e5 and Infinity for no date
HoursSinceAtLeast(iso, h) ==
    IF iso = NoTime THEN TRUE ELSE (clock - iso) >= h * HourMinutes

\* item.lastUpdate || item.created
EffLast(it) == IF it.lastUpdate # NoTime THEN it.lastUpdate ELSE it.created

----------------------------------------------------------------------------
(* The Source (Raindrop REST API) *)

Places == {"unborn", "here", "other", "trash", "gone"}
Blank == [place |-> "unborn", created |-> NoTime, lastUpdate |-> NoTime]

InColl == {i \in DOMAIN source : source[i].place = "here"}

\* sort=-created: newest first; equal creation times are listed by descending id
Newer(a, b) ==
    \/ source[a].created > source[b].created
    \/ source[a].created = source[b].created /\ a > b

SortDesc(S) ==
    LET ahead == [x \in S |-> Cardinality({y \in S : Newer(y, x)})]
    IN [k \in 1..Cardinality(S) |-> CHOOSE x \in S : ahead[x] = k - 1]

PageOf(lst, perPage, page) ==
    SubSeq(lst, page * perPage + 1, Min(Len(lst), (page + 1) * perPage))

\* fetchRecentRaindrops(collectionId, perPage, page)
fetchRecentRaindrops(perPage, page) == PageOf(SortDesc(InColl), perPage, page)

\* search=created:>DATE / lastUpdate:>DATE; the filter has day granularity.
\* cfg.searchIncl says whether the Source counts the named day itself as a match.
DateAfter(t, d) ==
    /\ t # NoTime
    /\ IF cfg.searchIncl THEN isoDateOnly(t) >= d ELSE isoDateOnly(t) > d

\* fetchRaindropsBySearch(collectionId, search, perPage, page, '-created')
fetchRaindropsBySearch(field, d, perPage, page) ==
    LET hit == {i \in InColl :
                   DateAfter(IF field = "created" THEN source[i].created
                             ELSE source[i].lastUpdate, d)}
    IN PageOf(SortDesc(hit), perPage, page)

\* fetchRaindropDetail(id): 404 or a non-2xx status give {exists: false}
fetchRaindropDetail(id, httpOk) ==
    IF ~httpOk \/ source[id].place \in {"unborn", "gone"}
    THEN [exists |-> FALSE, removed |-> FALSE, collectionId |-> "none"]
    ELSE [exists |-> TRUE,
          removed |-> (source[id].place = "trash"),
          collectionId |-> IF source[id].place = "here" THEN "here" ELSE "other"]

\* getCollectionTitleById(id): the title, or undefined ("") when the call is not ok
getCollectionTitleById(coll, httpOk) ==
    IF httpOk /\ coll # "none" THEN coll ELSE ""

----------------------------------------------------------------------------
(* The Destination (lib/notion.ts) *)

\* A row (page) of the database. content stands for the mapped fields Title, URL, Tags,
\* Excerpt, Notes, Site and Created: the version of the item they were copied from.
\* 'Synced At' is written and never read: it is part of the write calls, not of the row.
NewRow(id, it, title) ==
    [rid |-> id, locked |-> FALSE, deletedFlag |-> FALSE, deleteDetectedAt |-> NoTime,
     lastUpd |-> EffLast(it), content |-> it.lastUpdate, collection |-> title,
     status |-> "New", archived |-> FALSE]

ContentProps == {"Title", "URL", "Tags", "Excerpt", "Notes", "Site", "Created"}

\* the properties each write sends
PropsOf(op, setArchived) ==
    IF op = "create"
    THEN ContentProps \cup {"Collection", "Raindrop ID", "Status", "Raindrop LastUpdate", "Synced At"}
    ELSE IF op = "update"
    THEN ContentProps \cup {"Collection", "Raindrop LastUpdate", "Synced At"}
    ELSE IF op = "updateCollectionOnly" THEN {"Collection", "Synced At"}
    ELSE IF op = "markDeleteDetected"
    THEN {"Deleted (Raindrop)", "Delete Detected At", "Synced At"}
         \cup (IF setArchived THEN {"Status"} ELSE {})
    ELSE IF op = "clearDeleteFlags" THEN {"Deleted (Raindrop)", "Delete Detected At", "Synced At"}
    ELSE IF op = "archivePage" THEN {"archived"}
    ELSE {}

NoCall == [op |-> "none", page |-> 0, props |-> {}]
Call(op, page, setArchived) == [op |-> op, page |-> page, props |-> PropsOf(op, setArchived)]

\* databases.query never returns archived pages
Live == {i \in 1..Len(dest) : ~dest[i].archived}
LiveFor(id) == {i \in Live : dest[i].rid = id}

\* the query with page_size 1 (as pageExists asks it): the variant "a row that exists
\* before the runs start is never duplicated" (C17) must tell apart
QueryChunkOnePage(chunk) ==
    Take(Ascending({i \in Live : dest[i].rid \in Range(chunk)}), 1)

\* one databases.query with an or-filter over a chunk of ids, page_size 100
QueryChunk(chunk) ==
    Take(Ascending({i \in Live : dest[i].rid \in Range(chunk)}), NOTION_PAGE_SIZE)

NotionFound(i) ==
    [pageId |-> i, raindropLastUpdate |-> dest[i].lastUpd, locked |-> dest[i].locked]

\* out.set(idProp, ...) for each page of the result, in order: the last page of an id wins
HitsToMap(hits) ==
    [r \in {dest[i].rid : i \in Range(hits)} |->
        NotionFound(CHOOSE i \in Range(hits) :
                       /\ dest[i].rid = r
                       /\ \A j \in Range(hits) : dest[j].rid = r => j <= i)]

RECURSIVE ChunkLoop(_, _, _)
ChunkLoop(ids, i, out) ==
    IF i >= Len(ids) THEN out
    ELSE ChunkLoop(ids, i + NOTION_QUERY_CHUNK,
                   HitsToMap(QueryChunk(SubSeq(ids, i + 1, Min(Len(ids), i + NOTION_QUERY_CHUNK)))) @@ out)

\* the lookup with the single-id filter (equals chunk[0]) used for every chunk: the
\* variant the uniqueness of the join key (C2) must tell apart
getPagesByFirstId(ids) ==
    IF ids = <<>> THEN <<>> ELSE HitsToMap(QueryChunk(Take(ids, 1)))

\* getPagesByRaindropIds(ids): Map<raindropId, NotionFound>
getPagesByRaindropIds(ids) == ChunkLoop(ids, 0, <<>>)

\* listAllNotionRows(): every non-archived page that has a Raindrop ID
NotionRow(i) ==
    [pageId |-> i, raindropId |-> dest[i].rid, locked |-> dest[i].locked,
     deletedFlag |-> dest[i].deletedFlag, deleteDetectedAt |-> dest[i].deleteDetectedAt]

\* a listing that returns the archived pages as well: the variant "archive is
\* terminal" (C26) must tell apart
listAllPagesArchivedToo ==
    [k \in 1..Len(dest) |-> NotionRow(k)]

listAllNotionRows ==
    LET idx == Ascending(Live)
    IN [k \in 1..Len(idx) |-> NotionRow(idx[k])]

\* createFromRaindrop(item, {collectionTitle})
createFromRaindrop(id, title) == Append(dest, NewRow(id, source[id], title))

\* an update that sends Status 'New' as a create does: the variant "update frame" (C28)
\* must tell apart
updateResettingStatus(pageId, id, title) ==
    [dest EXCEPT ![pageId] =
        [@ EXCEPT !.lastUpd = EffLast(source[id]), !.content = source[id].lastUpdate,
                  !.collection = title, !.status = "New"]]

\* an update that stores the item's creation time as 'Raindrop LastUpdate': the variant
\* "stored last-modified is monotonic" (C27) must tell apart
updateStoringCreated(pageId, id, title) ==
    [dest EXCEPT ![pageId] =
        [@ EXCEPT !.lastUpd = source[id].created, !.content = source[id].lastUpdate,
                  !.collection = title]]

\* updateFromRaindrop(pageId, item, {collectionTitle}): Status, Lock and the delete fields are not sent
updateFromRaindrop(pageId, id, title) ==
    [dest EXCEPT ![pageId] =
        [@ EXCEPT !.lastUpd = EffLast(source[id]), !.content = source[id].lastUpdate,
                  !.collection = title]]

\* updateCollectionOnly(pageId, title)
updateCollectionOnly(pageId, title) ==
    [dest EXCEPT ![pageId] = [@ EXCEPT !.collection = title]]

\* a detection that ticks the checkbox and writes no date: the variant "the delete
\* fields move together" (C23) must tell apart
markDeletedCheckboxOnly(pageId, when, setArchived) ==
    [dest EXCEPT ![pageId] =
        [@ EXCEPT !.deletedFlag = TRUE,
                  !.status = IF setArchived THEN "Archived" ELSE @]]

\* a detection that sets Status whatever setArchived says: the variant "first
\* detection" (C24) must tell apart
markDeleteDetectedAndArchived(pageId, when, setArchived) ==
    [dest EXCEPT ![pageId] =
        [@ EXCEPT !.deletedFlag = TRUE, !.deleteDetectedAt = when, !.status = "Archived"]]

\* markDeleteDetected(pageId, whenIso, setArchived)
markDeleteDetected(pageId, when, setArchived) ==
    [dest EXCEPT ![pageId] =
        [@ EXCEPT !.deletedFlag = TRUE, !.deleteDetectedAt = when,
                  !.status = IF setArchived THEN "Archived" ELSE @]]

\* a clear that unticks the checkbox and leaves the date: the variant the
\* reappearance rule (C6) must tell apart
clearDeletedCheckboxOnly(pageId) ==
    [dest EXCEPT ![pageId] = [@ EXCEPT !.deletedFlag = FALSE]]

\* clearDeleteFlags(pageId)
clearDeleteFlags(pageId) ==
    [dest EXCEPT ![pageId] =
        [@ EXCEPT !.deletedFlag = FALSE, !.deleteDetectedAt = NoTime]]

\* archivePage(pageId)
archivePage(pageId) == [dest EXCEPT ![pageId] = [@ EXCEPT !.archived = TRUE]]

----------------------------------------------------------------------------
(* Handler state *)

NoOut ==
    [create |-> <<>>, update |-> <<>>, skippedLocked |-> <<>>, alreadyExists |-> <<>>,
     moved |-> <<>>, deleteDetected |-> <<>>, deleteArchivedNow |-> <<>>, clearedFlags |-> <<>>]

Idle ==
    [kind |-> "none", dryRun |-> FALSE, limitQP |-> 0, now |-> 0, defTitle |-> "",
     page |-> 0, passA |-> <<>>, consec |-> 0, pagesA |-> 0, stopA |-> "",
     passB |-> <<>>, pagesB |-> 0, cand |-> <<>>, found |-> <<>>, idx |-> 0,
     raindropIds |-> {}, rows |-> <<>>, wrote |-> FALSE, trunc |-> FALSE, out |-> NoOut,
     \* history of the invocation
     capped |-> FALSE,    \* the request carried a ?limit= parameter
     srcIO |-> FALSE,     \* a request to the Source has been issued
     dstIO |-> FALSE,     \* a request to the Destination has been issued
     scanned |-> <<>>,    \* the items the for-of loop of pass A has been through
     known |-> {},        \* the identifiers that had a row when the invocation started
     err |-> "",          \* what made the handler throw
     cached |-> {},       \* the collections whose title collectionTitleCache is known to hold
     unpaced |-> FALSE,   \* a write has been issued and no setTimeout delay has followed it
     paces |-> 0]         \* the setTimeout delays the invocation has waited for

NoPrev ==
    [kind |-> "none", dryRun |-> FALSE, limitQP |-> 0, out |-> NoOut,
     wrote |-> FALSE, trunc |-> FALSE, clockSame |-> FALSE]

AllIdle == \A p \in Procs : pc[p] = "idle"

\* The history is kept for an invocation that repeats the last request: the real run
\* after its dry run, and the sync after a real sync.
Repeats(kind, dry, limitQP) ==
    /\ prev.kind = kind
    /\ prev.limitQP = limitQP
    /\ \/ prev.dryRun /\ ~dry
       \/ ~prev.dryRun /\ kind = "sync"

Keep(kind, dry, limitQP) == IF Repeats(kind, dry, limitQP) THEN prev ELSE NoPrev

Push(l, field, id) == [l EXCEPT !.out = [@ EXCEPT ![field] = Append(@, id)]]

----------------------------------------------------------------------------
(* api/sync.ts *)

\* perPageA = limitQP && limitQP < PER_PAGE ? limitQP : PER_PAGE
PerPageA(limitQP) == IF limitQP # 0 /\ limitQP < PER_PAGE THEN limitQP ELSE PER_PAGE

\* the scan with a counter that is never reset by an item not found: the variant stop
\* rule (c) (C20) must tell apart
ScanPageNoReset(items, acc, existing, since) ==
    LET createdOld(k) == source[items[k]].created < since
        consecAt(k) == acc.consec + Cardinality({j \in 1..k : items[j] \in DOMAIN existing})
        breaks == {k \in 1..Len(items) :
                      createdOld(k) /\ consecAt(k) >= CONSECUTIVE_HITS_STOP}
        n == IF breaks = {} THEN Len(items)
             ELSE CHOOSE k \in breaks : \A j \in breaks : k <= j
        kept == Ascending({k \in 1..n : ~createdOld(k)})
    IN [passA |-> SeqUnion(acc.passA, [k \in 1..Len(kept) |-> items[kept[k]]]),
        consec |-> consecAt(n),
        stop |-> IF breaks = {} THEN "" ELSE "time-window-and-consecutive-existing",
        scanned |-> [k \in 1..n |-> [id |-> items[k], hit |-> items[k] \in DOMAIN existing]]]

\* the for-of loop over one page of pass A, by position in the page: the counter after
\* each item, the item the loop breaks at, the items kept up to there
ScanPage(items, acc, existing, since) ==
    LET createdOld(k) == source[items[k]].created < since
        misses(k) == {j \in 1..k : items[j] \notin DOMAIN existing}
        consecAt(k) ==      \* consecutiveExisting after item k
            IF k = 0 THEN acc.consec
            ELSE IF misses(k) = {} THEN acc.consec + k
            ELSE k - (CHOOSE m \in misses(k) : \A j \in misses(k) : j <= m)
        breaks == {k \in 1..Len(items) :
                      createdOld(k) /\ consecAt(k) >= CONSECUTIVE_HITS_STOP}
        n == IF breaks = {} THEN Len(items)
             ELSE CHOOSE k \in breaks : \A j \in breaks : k <= j
        kept == Ascending({k \in 1..n : ~createdOld(k)})
    IN [passA |-> SeqUnion(acc.passA, [k \in 1..Len(kept) |-> items[kept[k]]]),
        consec |-> consecAt(n),
        stop |-> IF breaks = {} THEN "" ELSE "time-window-and-consecutive-existing",
        scanned |-> [k \in 1..n |-> [id |-> items[k], hit |-> items[k] \in DOMAIN existing]]]

\* what ends pass A after a page that was scanned to its end
StopAfterPage(n, limitQP) ==
    IF n < PerPageA(limitQP) THEN "short-final-page"
    ELSE IF limitQP # 0 /\ limitQP <= PER_PAGE THEN "debug-limit"
    ELSE ""

\* candidates map (pass A first, then pass B) cut by slice(0, limitQP || candidates.size)
CandidateList(passA, passB, limitQP) ==
    LET u == SeqUnion(passA, passB)
    IN Take(u, IF limitQP # 0 THEN limitQP ELSE Len(u))

\* the branch the decision loop takes for one candidate
Decision(l, id) ==
    IF id \notin DOMAIN l.found THEN "create"
    ELSE IF l.found[id].locked THEN "locked"
    ELSE IF newerThan(EffLast(source[id]), l.found[id].raindropLastUpdate) THEN "update"
    ELSE "exists"

\* the decision loop's write without its dryRun guard: the variant "dry-run performs
\* no write" (C9) must tell apart
SyncWriteUnguarded(l, id, d, title) ==
    IF d = "create" THEN createFromRaindrop(id, title)
    ELSE IF d = "update" THEN updateFromRaindrop(l.found[id].pageId, id, title)
    ELSE dest

\* the Destination after the branch's write (none in dry-run)
SyncWrite(l, id, d, title) ==
    IF l.dryRun THEN dest
    ELSE IF d = "create" THEN createFromRaindrop(id, title)
    ELSE IF d = "update" THEN updateFromRaindrop(l.found[id].pageId, id, title)
    ELSE dest

\* the write call the branch issues
SyncCall(l, id, d) ==
    IF l.dryRun THEN NoCall
    ELSE IF d = "create" THEN Call("create", Len(dest) + 1, FALSE)
    ELSE IF d = "update" THEN Call("update", l.found[id].pageId, FALSE)
    ELSE NoCall

\* a dry run that reports its create and update previews only: the variant dry-run
\* parity (C8) must tell apart
SyncRecordPreviewOnly(l, id, d) ==
    IF d = "create" THEN Push(l, "create", id)
    ELSE IF d = "update" THEN Push(l, "update", id)
    ELSE IF l.dryRun THEN l
    ELSE IF d = "locked" THEN Push(Push(l, "skippedLocked", id), "alreadyExists", id)
    ELSE Push(l, "alreadyExists", id)

\* the response lists the branch appends to
SyncRecord(l, id, d) ==
    IF d = "create" THEN Push(l, "create", id)
    ELSE IF d = "locked" THEN Push(Push(l, "skippedLocked", id), "alreadyExists", id)
    ELSE IF d = "update" THEN Push(l, "update", id)
    ELSE Push(l, "alreadyExists", id)

SyncStart(p, dry, lim, titleOk) ==
    /\ pc[p] = "idle"
    /\ HasCollectionId
    /\ pc' = [pc EXCEPT ![p] = "passA"]
    /\ loc' = [loc EXCEPT ![p] =
                 [Idle EXCEPT !.kind = "sync", !.dryRun = dry,
                              !.limitQP = toIntInRange(lim, LIMIT_DEF, LIMIT_MIN, LIMIT_MAX),
                              !.now = clock,
                              \* without the token the title lookup rejects before its
                              \* fetch, and .catch(() => undefined) swallows that
                              !.defTitle = getCollectionTitleById("here", titleOk /\ HasRaindropToken),
                              \* if (title) collectionTitleCache.set(key, title)
                              !.cached = IF titleOk /\ HasRaindropToken THEN {"here"} ELSE {},
                              !.capped = lim # NoParam,
                              !.srcIO = HasRaindropToken,
                              !.known = {dest[i].rid : i \in Live}]]
    /\ call' = NoCall
    /\ prev' = Keep("sync", dry, toIntInRange(lim, LIMIT_DEF, LIMIT_MIN, LIMIT_MAX))
    /\ UNCHANGED <<source, dest, clock, cfg, changes>>

\* one page of pass A: fetch, batched existence lookup, scan, stop rules
PassAPage(p) ==
    /\ pc[p] = "passA"
    /\ \E items \in {fetchRecentRaindrops(PerPageA(loc[p].limitQP), loc[p].page)} :
       \E existing \in {getPagesByRaindropIds(items)} :
       \E acc \in {ScanPage(items, [passA |-> loc[p].passA, consec |-> loc[p].consec],
                            existing, Since(loc[p].now))} :
       \E stop \in {IF items = <<>> THEN "no-more-items"
                    ELSE IF acc.stop # "" THEN acc.stop
                    ELSE StopAfterPage(Len(items), loc[p].limitQP)} :
       LET l == loc[p]
           more == stop = "" /\ l.page + 1 < MAX_PAGES
       IN /\ HasRaindropToken
          /\ items = <<>> \/ NotionReady
          /\ loc' = [loc EXCEPT ![p] =
                       [l EXCEPT !.passA = acc.passA, !.consec = acc.consec,
                                 !.pagesA = @ + 1, !.stopA = stop,
                                 !.srcIO = TRUE, !.dstIO = @ \/ items # <<>>,
                                 !.scanned = IF items = <<>> THEN @ ELSE @ \o acc.scanned,
                                 !.trunc = @ \/ stop = "debug-limit" \/ (stop = "" /\ ~more),
                                 !.page = IF more THEN @ + 1 ELSE 0]]
          /\ pc' = [pc EXCEPT ![p] = IF more THEN "passA" ELSE "passB1"]
    /\ call' = NoCall
    /\ UNCHANGED <<source, dest, clock, cfg, prev, changes>>

\* a pass-B search that goes on while its pages are full, with no page budget: the
\* variant "bounded scans" (C21) must tell apart
PassBPageUnbounded(p, here, field, next) ==
    /\ pc[p] = here
    /\ \E items \in {fetchRaindropsBySearch(field, isoDateOnly(Since(loc[p].now)),
                                             PER_PAGE, loc[p].page)} :
       LET l == loc[p]
           more == items # <<>> /\ Len(items) >= PER_PAGE
       IN /\ HasRaindropToken
          /\ loc' = [loc EXCEPT ![p] =
                       [l EXCEPT !.passB = SeqUnion(@, items), !.pagesB = @ + 1,
                                 !.srcIO = TRUE,
                                 !.page = IF more THEN @ + 1 ELSE 0]]
          /\ pc' = [pc EXCEPT ![p] = IF more THEN here ELSE next]
    /\ call' = NoCall
    /\ UNCHANGED <<source, dest, clock, cfg, prev, changes>>

\* one page of a pass-B search; field is "lastUpdate" (first loop) or "created" (second loop)
PassBPage(p, here, field, next) ==
    /\ pc[p] = here
    /\ \E items \in {fetchRaindropsBySearch(field, isoDateOnly(Since(loc[p].now)),
                                             PER_PAGE, loc[p].page)} :
       LET l == loc[p]
           full == items # <<>> /\ Len(items) >= PER_PAGE
           more == full /\ l.page + 1 < MAX_PAGES
       IN /\ HasRaindropToken
          /\ loc' = [loc EXCEPT ![p] =
                       [l EXCEPT !.passB = SeqUnion(@, items), !.pagesB = @ + 1,
                                 !.srcIO = TRUE,
                                 !.trunc = @ \/ (full /\ ~more),
                                 !.page = IF more THEN @ + 1 ELSE 0]]
          /\ pc' = [pc EXCEPT ![p] = IF more THEN here ELSE next]
    /\ call' = NoCall
    /\ UNCHANGED <<source, dest, clock, cfg, prev, changes>>

PassB1Page(p) == PassBPage(p, "passB1", "lastUpdate", "passB2")
PassB2Page(p) == PassBPage(p, "passB2", "created", "lookup")

\* union, cap, and the batched lookup of all candidates
Lookup(p) ==
    /\ pc[p] = "lookup"
    /\ \E cand \in {CandidateList(loc[p].passA, loc[p].passB, loc[p].limitQP)} :
       \E found \in {getPagesByRaindropIds(cand)} :
       LET l == loc[p]
       IN /\ cand = <<>> \/ NotionReady
          /\ loc' = [loc EXCEPT ![p] =
                       [l EXCEPT !.cand = cand, !.found = found, !.idx = 1,
                                 !.dstIO = @ \/ cand # <<>>,
                                 !.trunc = @ \/ Len(cand) < Len(SeqUnion(l.passA, l.passB))]]
    /\ pc' = [pc EXCEPT ![p] = "decide"]
    /\ call' = NoCall
    /\ UNCHANGED <<source, dest, clock, cfg, prev, changes>>

\* one iteration of the decision loop: title lookup (answered by the cache when it
\* holds the title), then create / update / skip; a real create or update is followed
\* by await new Promise((r) => setTimeout(r, 150))
Decide(p, titleOk) ==
    /\ pc[p] = "decide"
    /\ loc[p].idx <= Len(loc[p].cand)
    /\ \E d \in {Decision(loc[p], loc[p].cand[loc[p].idx])} :
       LET l == loc[p]
           id == l.cand[l.idx]
           t == getCollectionTitleById("here", titleOk \/ "here" \in l.cached)
           title == IF t # "" THEN t ELSE l.defTitle
           c == SyncCall(l, id, d)
       IN /\ dest' = SyncWrite(l, id, d, title)
          /\ call' = c
          /\ loc' = [loc EXCEPT ![p] =
                       [SyncRecord(l, id, d) EXCEPT !.idx = @ + 1,
                                                    !.wrote = @ \/ c # NoCall,
                                                    !.cached = IF t # "" THEN @ \cup {"here"} ELSE @,
                                                    !.unpaced = IF c # NoCall THEN FALSE ELSE @,
                                                    !.paces = IF c # NoCall THEN @ + 1 ELSE @]]
    /\ UNCHANGED <<source, clock, cfg, pc, prev, changes>>

\* res.status(200).json({...})
Respond(p) ==
    /\ prev' = IF loc[p].kind = "reconcile" /\ ~loc[p].dryRun THEN NoPrev
               ELSE [kind |-> loc[p].kind, dryRun |-> loc[p].dryRun, limitQP |-> loc[p].limitQP,
                     out |-> loc[p].out, wrote |-> loc[p].wrote, trunc |-> loc[p].trunc,
                     clockSame |-> TRUE]
    /\ pc' = [pc EXCEPT ![p] = "idle"]
    /\ loc' = [loc EXCEPT ![p] = Idle]
    /\ call' = NoCall
    /\ UNCHANGED <<source, dest, clock, cfg, changes>>

SyncRespond(p) ==
    /\ pc[p] = "decide"
    /\ loc[p].idx > Len(loc[p].cand)
    /\ Respond(p)

----------------------------------------------------------------------------
(* api/reconcile.ts *)

\* the per-row branch without the detail check, every row outside the enumeration
\* taking the deletion flow: the variant "moved vs deleted" (C7) must tell apart
RowBranchNoDetail(l, row, detail) ==
    IF row.raindropId \in l.raindropIds
    THEN IF row.deletedFlag THEN "reappeared" ELSE "present"
    ELSE IF ~row.deletedFlag \/ row.deleteDetectedAt = NoTime THEN "detect"
    ELSE IF HoursSinceAtLeast(row.deleteDetectedAt, DELETE_GRACE_HOURS)
    THEN IF DELETE_MODE = "archive" /\ ~row.locked THEN "archive" ELSE "report"
    ELSE "grace"

\* the per-row branch with the post-grace test on the lock alone, DELETE_MODE not
\* looked at: the variant "deletion mode off is non-destructive" (C16) must tell apart
RowBranchAnyMode(l, row, detail) ==
    IF row.raindropId \in l.raindropIds
    THEN IF row.deletedFlag THEN "reappeared" ELSE "present"
    ELSE IF detail.exists /\ ~detail.removed
    THEN IF row.locked THEN "movedLocked" ELSE "moved"
    ELSE IF ~row.deletedFlag \/ row.deleteDetectedAt = NoTime THEN "detect"
    ELSE IF HoursSinceAtLeast(row.deleteDetectedAt, DELETE_GRACE_HOURS)
    THEN IF ~row.locked THEN "archive" ELSE "report"
    ELSE "grace"

\* the per-row branch that flags again a row still within its grace period, the date
\* rewritten at every run: the variant "within grace nothing is written" (C25) must
\* tell apart
RowBranchRefresh(l, row, detail) ==
    IF row.raindropId \in l.raindropIds
    THEN IF row.deletedFlag THEN "reappeared" ELSE "present"
    ELSE IF detail.exists /\ ~detail.removed
    THEN IF row.locked THEN "movedLocked" ELSE "moved"
    ELSE IF ~row.deletedFlag \/ row.deleteDetectedAt = NoTime THEN "detect"
    ELSE IF HoursSinceAtLeast(row.deleteDetectedAt, DELETE_GRACE_HOURS)
    THEN IF DELETE_MODE = "archive" /\ ~row.locked THEN "archive" ELSE "report"
    ELSE "detect"

\* the branch the per-row loop takes, from the row as listed and the detail check
RowBranch(l, row, detail) ==
    IF row.raindropId \in l.raindropIds
    THEN IF row.deletedFlag THEN "reappeared" ELSE "present"
    ELSE IF detail.exists /\ ~detail.removed
    THEN IF row.locked THEN "movedLocked" ELSE "moved"
    ELSE IF ~row.deletedFlag \/ row.deleteDetectedAt = NoTime THEN "detect"
    ELSE IF HoursSinceAtLeast(row.deleteDetectedAt, DELETE_GRACE_HOURS)
    THEN IF DELETE_MODE = "archive" /\ ~row.locked THEN "archive" ELSE "report"
    ELSE "grace"

\* the Destination after the branch's (first) write; none in dry-run
RowWrite(l, row, b, title) ==
    IF l.dryRun THEN dest
    ELSE IF b = "reappeared" THEN clearDeleteFlags(row.pageId)
    ELSE IF b = "moved" THEN updateCollectionOnly(row.pageId, title)
    ELSE IF b = "detect" THEN markDeleteDetected(row.pageId, clock, ~row.locked)
    ELSE IF b = "archive" THEN archivePage(row.pageId)
    ELSE dest

\* the write call the branch issues first
RowCall(l, row, b) ==
    IF l.dryRun THEN NoCall
    ELSE IF b = "reappeared" THEN Call("clearDeleteFlags", row.pageId, FALSE)
    ELSE IF b = "moved" THEN Call("updateCollectionOnly", row.pageId, FALSE)
    ELSE IF b = "detect" THEN Call("markDeleteDetected", row.pageId, ~row.locked)
    ELSE IF b = "archive" THEN Call("archivePage", row.pageId, FALSE)
    ELSE NoCall

\* the result list the branch appends to (moved rows that were flagged are also cleared)
RowRecord(l, row, b) ==
    IF b = "reappeared" THEN Push(l, "clearedFlags", row.raindropId)
    ELSE IF b = "moved" THEN Push(l, "moved", row.raindropId)
    ELSE IF b \in {"movedLocked", "report"} THEN Push(l, "skippedLocked", row.raindropId)
    ELSE IF b \in {"detect", "grace"} THEN Push(l, "deleteDetected", row.raindropId)
    ELSE IF b = "archive" THEN Push(l, "deleteArchivedNow", row.raindropId)
    ELSE l

RecStart(p, dry) ==
    /\ pc[p] = "idle"
    /\ HasCollectionId
    /\ pc' = [pc EXCEPT ![p] = "enum"]
    /\ loc' = [loc EXCEPT ![p] = [Idle EXCEPT !.kind = "reconcile", !.dryRun = dry]]
    /\ call' = NoCall
    /\ prev' = Keep("reconcile", dry, 0)
    /\ UNCHANGED <<source, dest, clock, cfg, changes>>

\* one page of the enumeration of all Raindrop ids of the collection
EnumPage(p) ==
    /\ pc[p] = "enum"
    /\ \E items \in {fetchRecentRaindrops(PER_PAGE, loc[p].page)} :
       LET l == loc[p]
           more == items # <<>> /\ Len(items) >= PER_PAGE /\ l.page + 1 < MAX_PAGES_REC
       IN /\ HasRaindropToken
          /\ loc' = [loc EXCEPT ![p] =
                       [l EXCEPT !.raindropIds = @ \cup Range(items), !.pagesA = @ + 1,
                                 !.srcIO = TRUE,
                                 !.page = IF more THEN @ + 1 ELSE 0]]
          /\ pc' = [pc EXCEPT ![p] = IF more THEN "enum" ELSE "list"]
    /\ call' = NoCall
    /\ UNCHANGED <<source, dest, clock, cfg, prev, changes>>

ListRows(p) ==
    /\ pc[p] = "list"
    /\ NotionReady
    /\ loc' = [loc EXCEPT ![p] =
                 [@ EXCEPT !.rows = listAllNotionRows, !.idx = 1, !.dstIO = TRUE]]
    /\ pc' = [pc EXCEPT ![p] = "rows"]
    /\ call' = NoCall
    /\ UNCHANGED <<source, dest, clock, cfg, prev, changes>>

\* one iteration of the per-row loop, up to and including its first write; the title is
\* looked up in the moved branch only (answered by the cache when it holds the title),
\* and no delay follows a write
RowStep(p, detailOk, titleOk) ==
    /\ pc[p] = "rows"
    /\ loc[p].idx <= Len(loc[p].rows)
    /\ \E detail \in {fetchRaindropDetail(loc[p].rows[loc[p].idx].raindropId, detailOk)} :
       \E b \in {RowBranch(loc[p], loc[p].rows[loc[p].idx], detail)} :
       LET l == loc[p]
           row == l.rows[l.idx]
           title == getCollectionTitleById(detail.collectionId,
                                           titleOk \/ detail.collectionId \in l.cached)
           c == RowCall(l, row, b)
           second == b = "moved" /\ row.deletedFlag
       IN /\ dest' = RowWrite(l, row, b, title)
          /\ call' = c
          /\ loc' = [loc EXCEPT ![p] =
                       [RowRecord(l, row, b) EXCEPT !.idx = IF second THEN @ ELSE @ + 1,
                                                    !.wrote = @ \/ c # NoCall,
                                                    !.cached = IF b \in {"moved", "movedLocked"} /\ title # ""
                                                               THEN @ \cup {detail.collectionId} ELSE @,
                                                    !.unpaced = @ \/ c # NoCall]]
          /\ pc' = [pc EXCEPT ![p] = IF second THEN "clear" ELSE "rows"]
    /\ UNCHANGED <<source, clock, cfg, prev, changes>>

\* moved branch, second write: a moved row that was flagged gets its delete flags cleared
MovedClear(p) ==
    /\ pc[p] = "clear"
    /\ LET l == loc[p]
           row == l.rows[l.idx]
           c == IF l.dryRun THEN NoCall ELSE Call("clearDeleteFlags", row.pageId, FALSE)
       IN /\ dest' = IF l.dryRun THEN dest ELSE clearDeleteFlags(row.pageId)
          /\ call' = c
          /\ loc' = [loc EXCEPT ![p] =
                       [Push(l, "clearedFlags", row.raindropId) EXCEPT !.idx = @ + 1,
                                                                  !.wrote = @ \/ c # NoCall,
                                                                  !.unpaced = @ \/ c # NoCall]]
    /\ pc' = [pc EXCEPT ![p] = "rows"]
    /\ UNCHANGED <<source, clock, cfg, prev, changes>>

RecRespond(p) ==
    /\ pc[p] = "rows"
    /\ loc[p].idx > Len(loc[p].rows)
    /\ Respond(p)

\* an awaited call rejects (listing or search not ok, Notion error, network error):
\* the handler's catch sends the 500 response
Throw(p) ==
    /\ pc[p] # "idle"
    /\ pc' = [pc EXCEPT ![p] = "idle"]
    /\ loc' = [loc EXCEPT ![p] = Idle]
    /\ call' = NoCall
    /\ prev' = NoPrev
    /\ UNCHANGED <<source, dest, clock, cfg, changes>>

----------------------------------------------------------------------------
(* The ways an awaited call makes the handler throw, by the place the      *)
(* handler is at. The catch block is a position of its own ("error"): the  *)
(* handler still holds its locals there and has written no response yet.   *)

\* throw: control passes to catch (e) with the locals l and the cause why
Caught(p, l, why) ==
    /\ pc' = [pc EXCEPT ![p] = "error"]
    /\ loc' = [loc EXCEPT ![p] = [l EXCEPT !.err = why]]

\* if (!RAINDROP_COLLECTION_ID) throw new Error('Missing RAINDROP_COLLECTION_ID')
ConfigError(p, kind, dry) ==
    /\ pc[p] = "idle"
    /\ ~HasCollectionId
    /\ Caught(p, [Idle EXCEPT !.kind = kind, !.dryRun = dry], "config")
    /\ call' = NoCall
    /\ prev' = NoPrev
    /\ UNCHANGED <<source, dest, clock, cfg, changes>>

ListingPlaces == {"passA", "passB1", "passB2", "enum"}

\* a listing or search page that answers with a non-success status, reported in the
\* decision and per-row loops as well: the variant "a listing failure is write-free"
\* (C13) must tell apart
ListingFailsInLoop(p) ==
    /\ pc[p] \in ListingPlaces \cup {"decide", "rows"}
    /\ HasRaindropToken
    /\ Caught(p, [loc[p] EXCEPT !.srcIO = TRUE], "listing")
    /\ call' = NoCall
    /\ UNCHANGED <<source, dest, clock, cfg, prev, changes>>

\* fetchRecentRaindrops / fetchRaindropsBySearch throw: getRaindropToken() finds no token
\* (before the fetch is issued), or the response is not ok
ListingFails(p) ==
    /\ pc[p] \in ListingPlaces
    /\ IF HasRaindropToken
       THEN Caught(p, [loc[p] EXCEPT !.srcIO = TRUE], "listing")
       ELSE Caught(p, loc[p], "config")
    /\ call' = NoCall
    /\ UNCHANGED <<source, dest, clock, cfg, prev, changes>>

\* notion.databases.query rejects: in getPagesByRaindropIds for the page of pass A or
\* for the candidate list, or in listAllNotionRows. Nothing is asked for an empty list.
LookupFails(p) ==
    /\ \/ /\ pc[p] = "passA"
          /\ HasRaindropToken
          /\ fetchRecentRaindrops(PerPageA(loc[p].limitQP), loc[p].page) # <<>>
       \/ /\ pc[p] = "lookup"
          /\ CandidateList(loc[p].passA, loc[p].passB, loc[p].limitQP) # <<>>
       \/ pc[p] = "list"
    /\ Caught(p, [loc[p] EXCEPT !.srcIO = @ \/ pc[p] = "passA", !.dstIO = TRUE],
              IF NotionReady THEN "lookup" ELSE "config")
    /\ call' = NoCall
    /\ UNCHANGED <<source, dest, clock, cfg, prev, changes>>

\* await fetchRaindropDetail(row.raindropId) rejects: the fetch itself fails (no
\* response), or the body of an ok response is not JSON; nothing catches it in the loop
DetailThrows(p) ==
    /\ pc[p] = "rows"
    /\ loc[p].idx <= Len(loc[p].rows)
    /\ loc[p].rows[loc[p].idx].raindropId \notin loc[p].raindropIds
    /\ Caught(p, loc[p], "detail")
    /\ call' = NoCall
    /\ UNCHANGED <<source, dest, clock, cfg, prev, changes>>

\* await getCollectionTitleById(collId) rejects in the decision loop: the cache holds no
\* title for the collection, so the fetch is issued, and it fails without a response (or
\* the body of an ok response is not JSON); the call has no .catch here
TitleThrows(p) ==
    /\ pc[p] = "decide"
    /\ loc[p].idx <= Len(loc[p].cand)
    /\ "here" \notin loc[p].cached
    /\ Caught(p, loc[p], "title")
    /\ call' = NoCall
    /\ UNCHANGED <<source, dest, clock, cfg, prev, changes>>

\* a failed write that is caught per candidate, the loop going on to the next one: the
\* variant "no per-candidate error isolation" (C15) must tell apart
WriteFailsIsolated(p, titleOk, landed) ==
    /\ pc[p] = "decide"
    /\ loc[p].idx <= Len(loc[p].cand)
    /\ ~loc[p].dryRun
    /\ Decision(loc[p], loc[p].cand[loc[p].idx]) \in {"create", "update"}
    /\ loc' = [loc EXCEPT ![p] = [@ EXCEPT !.err = "write", !.idx = @ + 1]]
    /\ call' = SyncCall(loc[p], loc[p].cand[loc[p].idx],
                        Decision(loc[p], loc[p].cand[loc[p].idx]))
    /\ UNCHANGED <<source, dest, clock, cfg, pc, prev, changes>>

\* await createFromRaindrop / updateFromRaindrop rejects for the candidate the loop is
\* at. The request was issued; a call that failed for want of an answer may have taken
\* effect in the Destination (landed) or not.
WriteFails(p, titleOk, landed) ==
    /\ pc[p] = "decide"
    /\ loc[p].idx <= Len(loc[p].cand)
    /\ ~loc[p].dryRun
    /\ LET l == loc[p]
           id == l.cand[l.idx]
           t == getCollectionTitleById("here", titleOk \/ "here" \in l.cached)
           title == IF t # "" THEN t ELSE l.defTitle
           d == Decision(l, id)
       IN /\ d \in {"create", "update"}
          /\ dest' = IF landed THEN SyncWrite(l, id, d, title) ELSE dest
          /\ call' = SyncCall(l, id, d)
          /\ Caught(p, l, "write")
    /\ UNCHANGED <<source, clock, cfg, prev, changes>>

\* what the 500 response leaves in the history: the message, no list of the summary
ErrPrev == [NoPrev EXCEPT !.kind = "error"]

\* catch (e): res.status(500).json({ error: e?.message || 'Error' })
ErrorRespond(p) ==
    /\ pc[p] = "error"
    /\ pc' = [pc EXCEPT ![p] = "idle"]
    /\ loc' = [loc EXCEPT ![p] = Idle]
    /\ call' = NoCall
    /\ prev' = ErrPrev
    /\ UNCHANGED <<source, dest, clock, cfg, changes>>

----------------------------------------------------------------------------
(* The environment: time, the Raindrop user, the Notion user.              *)
(* An invocation lasts far less than a tick of the modelled clock, so the  *)
(* environment moves between invocations.                                  *)

\* half a day passes; last is the latest clock reading of the specification
Tick(last) ==
    /\ AllIdle
    /\ clock < last
    /\ clock' = clock + TickMinutes
    /\ prev' = IF prev.kind = "sync" /\ ~prev.dryRun
               THEN [prev EXCEPT !.clockSame = FALSE] ELSE NoPrev
    /\ UNCHANGED <<source, dest, cfg, pc, loc, call, changes>>

UserChange ==
    /\ AllIdle
    /\ changes < MaxChanges
    /\ changes' = changes + 1
    /\ prev' = NoPrev
    /\ UNCHANGED <<clock, cfg, pc, loc, call>>

\* a bookmark is saved into the collection; Raindrop numbers its items in the order
\* they are created
AddItem(i, withLastUpdate) ==
    /\ source[i].place = "unborn"
    /\ \A j \in 1..(i - 1) : source[j].place # "unborn"
    /\ source' = [source EXCEPT ![i] =
                    [place |-> "here", created |-> clock,
                     lastUpdate |-> IF withLastUpdate THEN clock ELSE NoTime]]
    /\ UserChange
    /\ UNCHANGED dest

\* a bookmark is edited
EditItem(i) ==
    /\ source[i].place \in {"here", "other"}
    /\ source[i].lastUpdate # clock
    /\ source' = [source EXCEPT ![i] = [@ EXCEPT !.lastUpdate = clock]]
    /\ UserChange
    /\ UNCHANGED dest

\* a bookmark is moved to another collection, to the trash, or back; the trash is emptied
MoveItem(i, to) ==
    /\ \/ source[i].place \in {"here", "other", "trash"} /\ to \in {"here", "other", "trash"}
       \/ source[i].place = "trash" /\ to = "gone"
    /\ to # source[i].place
    /\ source' = [source EXCEPT ![i] =
                    IF to = "gone" THEN [Blank EXCEPT !.place = "gone"]
                    ELSE [@ EXCEPT !.place = to]]
    /\ UserChange
    /\ UNCHANGED dest

\* the Notion user ticks or unticks Lock on a row
UserLock(k) ==
    /\ k \in Live
    /\ dest' = [dest EXCEPT ![k] = [@ EXCEPT !.locked = ~@]]
    /\ UserChange
    /\ UNCHANGED source

----------------------------------------------------------------------------
(* Specification: invocations never overlap (the cron schedule's normal    *)
(* case), and the title and detail lookups of the Source answer.           *)

\* The deployments checked: a baseline with pages of one item, a window of 12 h 15 min
\* and a grace period of 12 h, and the baseline with one knob turned at a time.
BaseConfig ==
    [PER_PAGE |-> 1, MAX_PAGES |-> NoEnv, CONSECUTIVE_HITS_STOP |-> 1,
     LOOKBACK_HOURS |-> 12, OVERLAP_MINUTES |-> NoEnv,
     DELETE_MODE |-> "", DELETE_GRACE_HOURS |-> 12, searchIncl |-> TRUE, missing |-> {}]

Configs ==
    {BaseConfig,
     [BaseConfig EXCEPT !.MAX_PAGES = 1],
     [BaseConfig EXCEPT !.PER_PAGE = 2],
     [BaseConfig EXCEPT !.DELETE_MODE = "off"],
     [BaseConfig EXCEPT !.searchIncl = FALSE]}

LimitParams == {NoParam, 0, 1}

Init ==
    /\ source = [i \in Ids |-> Blank]
    /\ dest = <<>>
    /\ clock = 0
    /\ cfg \in Configs
    /\ pc = [p \in Procs |-> "idle"]
    /\ loc = [p \in Procs |-> Idle]
    /\ call = NoCall
    /\ prev = NoPrev
    /\ changes = 0

Sync(p, Oks) ==
    \/ \E dry \in BOOLEAN, lim \in LimitParams, ok \in Oks : SyncStart(p, dry, lim, ok)
    \/ PassAPage(p)
    \/ PassB1Page(p)
    \/ PassB2Page(p)
    \/ Lookup(p)
    \/ \E ok \in Oks : Decide(p, ok)
    \/ SyncRespond(p)

Reconcile(p, Oks) ==
    \/ \E dry \in BOOLEAN : RecStart(p, dry)
    \/ EnumPage(p)
    \/ ListRows(p)
    \/ \E dok \in Oks, tok \in Oks : RowStep(p, dok, tok)
    \/ MovedClear(p)
    \/ RecRespond(p)

Env ==
    \/ Tick(MaxTicks * TickMinutes)
    \/ \E i \in Ids, b \in BOOLEAN : AddItem(i, b)
    \/ \E i \in Ids : EditItem(i)
    \/ \E i \in Ids, to \in Places : MoveItem(i, to)
    \/ \E k \in 1..Len(dest) : UserLock(k)

Next == Sync(1, {TRUE}) \/ Reconcile(1, {TRUE}) \/ Throw(1) \/ Env

Spec == Init /\ [][Next]_vars

----------------------------------------------------------------------------------------------------------------------------------------
(* Specification of a large first import: the deployment with no knob set  *)
(* (every default in force), an empty Destination, requests that pass no   *)
(* limit parameter, and one item more in the window than the default of    *)
(* the limit. Item 1 is the oldest and has just been edited, item 2 is as  *)
(* old, the others were saved half a day later; the first run starts 48 h  *)
(* after the oldest items were saved. Every call of every run succeeds.    *)

BulkItems == LIMIT_DEF + 1
BulkStart == 4 * TickMinutes

DefaultConfig ==
    [PER_PAGE |-> NoEnv, MAX_PAGES |-> NoEnv, CONSECUTIVE_HITS_STOP |-> NoEnv,
     LOOKBACK_HOURS |-> NoEnv, OVERLAP_MINUTES |-> NoEnv,
     DELETE_MODE |-> "", DELETE_GRACE_HOURS |-> NoEnv, searchIncl |-> TRUE, missing |-> {}]

InitBulk ==
    /\ source = [i \in 1..BulkItems |->
                    [place |-> "here",
                     created |-> IF i <= 2 THEN 0 ELSE TickMinutes,
                     lastUpdate |-> IF i = 1 THEN BulkStart ELSE NoTime]]
    /\ dest = <<>>
    /\ clock = BulkStart
    /\ cfg \in {DefaultConfig, [DefaultConfig EXCEPT !.searchIncl = FALSE]}
    /\ pc = [p \in Procs |-> "idle"]
    /\ loc = [p \in Procs |-> Idle]
    /\ call = NoCall
    /\ prev = NoPrev
    /\ changes = 0

NextBulk ==
    \/ \E dry \in BOOLEAN : SyncStart(1, dry, NoParam, TRUE)
    \/ PassAPage(1)
    \/ PassB1Page(1)
    \/ PassB2Page(1)
    \/ Lookup(1)
    \/ Decide(1, TRUE)
    \/ SyncRespond(1)
    \/ Tick(BulkStart + TickMinutes)

SpecBulk == InitBulk /\ [][NextBulk]_vars

----------------------------------------------------------------------------
(* Specification of failing calls and missing settings. The deployment is  *)
(* the baseline with at most one required setting missing. Item 1 was      *)
(* saved half a day ago and may just have been edited; item 2 was saved    *)
(* now, and is in the collection, in another one, in the trash or deleted  *)
(* for good. The Destination is empty, or an earlier sync created the row  *)
(* of item 1, or of both, and an earlier reconcile may have flagged the    *)
(* row of item 2. Every awaited call of an invocation may fail.            *)

FaultStart == TickMinutes

FaultConfigs ==
    {[BaseConfig EXCEPT !.missing = m] : m \in {{}} \cup {{s} : s \in Required}}

\* the item as it was saved: in the collection, never edited
Saved(t) == [place |-> "here", created |-> t, lastUpdate |-> NoTime]

FaultSources ==
    {[i \in Ids |-> IF i = 1 THEN [Saved(0) EXCEPT !.lastUpdate = u]
                    ELSE IF w = "gone" THEN [Blank EXCEPT !.place = "gone"]
                    ELSE [Saved(FaultStart) EXCEPT !.place = w]] :
        u \in {NoTime, FaultStart}, w \in {"here", "other", "trash", "gone"}}

FaultRow(i) == NewRow(i, Saved(IF i = 1 THEN 0 ELSE FaultStart), "here")

FaultDests ==
    {<<>>, <<FaultRow(1)>>, <<FaultRow(1), FaultRow(2)>>,
     <<FaultRow(1), [FaultRow(2) EXCEPT !.deletedFlag = TRUE,
                                        !.deleteDetectedAt = FaultStart,
                                        !.status = "Archived"]>>}

InitFaults ==
    /\ source \in FaultSources
    /\ dest \in FaultDests
    /\ clock = FaultStart
    /\ cfg \in FaultConfigs
    /\ pc = [p \in Procs |-> "idle"]
    /\ loc = [p \in Procs |-> Idle]
    /\ call = NoCall
    /\ prev = NoPrev
    /\ changes = 0

NextFaults ==
    \/ Sync(1, BOOLEAN)
    \/ Reconcile(1, BOOLEAN)
    \/ \E kind \in {"sync", "reconcile"}, dry \in BOOLEAN : ConfigError(1, kind, dry)
    \/ ListingFails(1)
    \/ LookupFails(1)
    \/ DetailThrows(1)
    \/ TitleThrows(1)
    \/ \E ok \in BOOLEAN, landed \in BOOLEAN : WriteFails(1, ok, landed)
    \/ ErrorRespond(1)
    \/ Tick(FaultStart + TickMinutes)

SpecFaults == InitFaults /\ [][NextFaults]_vars

----------------------------------------------------------------------------
(* Specification of overlapping sync runs (two cron fires, or a cron fire  *)
(* and a manual request): two invocations of /api/sync interleave at their *)
(* awaits. Item 1 has its row and may just have been edited; item 2 has    *)
(* just been saved and has no row. Every call succeeds.                    *)

OverlapStart == TickMinutes

InitOverlap ==
    /\ source \in {[i \in Ids |-> IF i = 1 THEN [Saved(0) EXCEPT !.lastUpdate = u]
                                  ELSE Saved(OverlapStart)] :
                      u \in {NoTime, OverlapStart}}
    /\ dest = <<FaultRow(1)>>
    /\ clock = OverlapStart
    /\ cfg \in {BaseConfig, [BaseConfig EXCEPT !.PER_PAGE = 2]}
    /\ pc = [p \in Procs |-> "idle"]
    /\ loc = [p \in Procs |-> Idle]
    /\ call = NoCall
    /\ prev = NoPrev
    /\ changes = 0

NextOverlap == \E p \in Procs : Sync(p, {TRUE})

SpecOverlap == InitOverlap /\ [][NextOverlap]_vars

----------------------------------------------------------------------------
(* Specification of the schedule: the crons of the README (/api/sync every *)
(* five minutes, /api/reconcile every night, both real and without query   *)
(* parameters) keep firing while time passes; a sync with ?limit=1 and a   *)
(* dry reconcile are requested by hand now and then. No user is at work    *)
(* and every call answers. Item 1 was saved half a day ago                 *)
(* and may just have been edited; item 2 was saved now and is in the       *)
(* collection, in another one, in the trash or deleted for good. Both have *)
(* their rows; the Notion user has set the Status of the row of item 1;    *)
(* the row of item 2 may be locked, and an earlier reconcile               *)
(* may have flagged it. The deployment is the baseline, or the baseline    *)
(* with a page budget of one, or with the deletion mode off, or with a     *)
(* grace period of a day.                                                  *)

NightlyStart == TickMinutes
NightlyLast == NightlyStart + MaxTicks * TickMinutes

NightlyConfigs ==
    {BaseConfig, [BaseConfig EXCEPT !.MAX_PAGES = 1], [BaseConfig EXCEPT !.DELETE_MODE = "off"],
     [BaseConfig EXCEPT !.DELETE_GRACE_HOURS = 24]}

\* the row of item 1 as the Notion user left it: Status moved on from 'New'
ReadRow == [FaultRow(1) EXCEPT !.status = "Read"]

NightlyDests ==
    {<<ReadRow, [FaultRow(2) EXCEPT !.locked = k]>> : k \in BOOLEAN}
    \cup {<<ReadRow, [FaultRow(2) EXCEPT !.locked = k, !.deletedFlag = TRUE,
                                             !.deleteDetectedAt = NightlyStart,
                                             !.status = IF k THEN "New" ELSE "Archived"]>> :
             k \in BOOLEAN}

InitNightly ==
    /\ source \in FaultSources
    /\ dest \in NightlyDests
    /\ clock = NightlyStart
    /\ cfg \in NightlyConfigs
    /\ pc = [p \in Procs |-> "idle"]
    /\ loc = [p \in Procs |-> Idle]
    /\ call = NoCall
    /\ prev = NoPrev
    /\ changes = 0

\* the steps of an invocation that has started: each is the continuation of an await
\* whose call has answered, which the event loop runs
Running(p) ==
    \/ PassAPage(p) \/ PassB1Page(p) \/ PassB2Page(p) \/ Lookup(p)
    \/ Decide(p, TRUE) \/ SyncRespond(p)
    \/ EnumPage(p) \/ ListRows(p) \/ RowStep(p, TRUE, TRUE) \/ MovedClear(p) \/ RecRespond(p)

NextNightly ==
    \/ \E lim \in {NoParam, 1} : SyncStart(1, FALSE, lim, TRUE)
    \/ \E dry \in BOOLEAN : RecStart(1, dry)
    \/ Running(1)
    \/ Tick(NightlyLast)

\* A started invocation runs on; the cron fires the real reconcile again and again; time
\* passes between invocations up to the last clock reading of the specification.
SpecNightly ==
    /\ InitNightly /\ [][NextNightly]_vars
    /\ WF_vars(Running(1))
    /\ SF_vars(RecStart(1, FALSE))
    /\ SF_vars(Tick(NightlyLast))

----------------------------------------------------------------------------
(* Observations of a handler's position *)

\* the loop has run to its end: the next step is the 200 response
SyncDone(p) == pc[p] = "decide" /\ loc[p].idx > Len(loc[p].cand)
RecDone(p) == pc[p] = "rows" /\ loc[p].idx > Len(loc[p].rows)

\* the positions of the candidates the decision loop has been through
Decided(p) == IF pc[p] = "decide" THEN 1..(loc[p].idx - 1) ELSE {}

\* the per-row loop has worked on a row; LastRow is that row as it was listed
RowWorked(p) == pc[p] = "clear" \/ (pc[p] = "rows" /\ loc[p].idx > 1)
LastRow(p) == loc[p].rows[IF pc[p] = "clear" THEN loc[p].idx ELSE loc[p].idx - 1]

\* the item of the row is absent from the Source: the detail check reports it missing or removed
Absent(row) ==
    LET d == fetchRaindropDetail(row.raindropId, TRUE) IN ~d.exists \/ d.removed

\* prev is the summary of a completed real sync, with nothing changed by the users since
AfterRealSync == prev.kind = "sync" /\ ~prev.dryRun

\* the number of items at the end of sc[1..k] that were all found in the Destination,
\* back to the last one that was not
HitRun(sc, k) ==
    LET misses == {j \in 1..k : ~sc[j].hit}
    IN IF misses = {} THEN k ELSE k - (CHOOSE m \in misses : \A j \in misses : j <= m)

\* stop rule (c) at the k-th scanned item: older than since, counter at the threshold
RuleC(sc, k, since) ==
    /\ source[sc[k].id].created < since
    /\ HitRun(sc, k) >= CONSECUTIVE_HITS_STOP

----------------------------------------------------------------------------
(* The claims *)

\* C1 as stated: when a real sync has completed and a second sync runs with no change
\* to the Source and no outside change to the Destination, the second run has zero
\* creates and zero updates (its create and update lists are empty).
C1_SecondRunWritesNothing ==
    \A p \in Procs :
        SyncDone(p) /\ AfterRealSync
            => loc[p].out.create = <<>> /\ loc[p].out.update = <<>>

\* C2: every Source identifier has at most one non-archived row, after any sequence of
\* non-overlapping sync and reconcile invocations, real or dry-run, completed or aborted.
C2_JoinKeyUnique ==
    \A id \in DOMAIN source : Cardinality(LiveFor(id)) <= 1

\* an identifier whose first row was archived and that was created again
C2_Witness ==
    \E i, j \in 1..Len(dest) :
        dest[i].rid = dest[j].rid /\ dest[i].archived /\ ~dest[j].archived

\* C3 as stated: no step of a sync or a reconcile changes the content, the collection,
\* the delete fields or the archived state of a row whose Lock is ticked.
C3_LockInvariance ==
    [][\A k \in 1..Len(dest) :
          dest[k].locked =>
              /\ dest'[k].content = dest[k].content
              /\ dest'[k].collection = dest[k].collection
              /\ dest'[k].deletedFlag = dest[k].deletedFlag
              /\ dest'[k].deleteDetectedAt = dest[k].deleteDetectedAt
              /\ dest'[k].archived = dest[k].archived]_vars

\* C4: a candidate whose row exists, is unlocked and stores T0 is classified "update"
\* iff its effective last-modified T1 is later than T0, and is otherwise classified
\* "already exists"; the update call is issued iff T1 > T0 (in a real run), and no call
\* is issued when T1 <= T0.
C4_FreshnessRule ==
    \A p \in Procs : \A k \in Decided(p) :
        LET l == loc[p]
            id == l.cand[k]
            T1 == EffLast(source[id])
        IN (id \in DOMAIN l.found /\ ~l.found[id].locked
              /\ l.found[id].raindropLastUpdate # NoTime) =>
             LET T0 == l.found[id].raindropLastUpdate
             IN /\ id \in Range(l.out.update) <=> T1 > T0
                /\ id \in Range(l.out.alreadyExists) <=> ~(T1 > T0)
                /\ k = l.idx - 1 =>
                      IF T1 > T0 /\ ~l.dryRun
                      THEN /\ call = Call("update", l.found[id].pageId, FALSE)
                           /\ dest[l.found[id].pageId].lastUpd = T1
                      ELSE call = NoCall

\* a real run has just updated a row whose item was modified after the stored time
C4_Witness ==
    /\ pc[1] = "decide" /\ loc[1].idx > 1 /\ ~loc[1].dryRun
    /\ call.op = "update"
    /\ loc[1].out.update # <<>>

\* C5: in a real reconcile under mode 'archive', for an unlocked row whose item is
\* absent from the Source: a row not yet flagged is flagged (checkbox and detection
\* time) and not archived; a flagged row younger than the grace period is left as it
\* is; a flagged row at least as old as the grace period is archived. No row is
\* archived unless it was already flagged, for at least the grace period.
C5_DeleteGrace ==
    \A p \in Procs :
        (RowWorked(p) /\ ~loc[p].dryRun) =>
            LET row == LastRow(p)
                r == dest[row.pageId]
                elapsed == clock - row.deleteDetectedAt
                G == DELETE_GRACE_HOURS * HourMinutes
            IN /\ (~row.locked /\ DELETE_MODE = "archive" /\ Absent(row)
                     /\ row.raindropId \notin loc[p].raindropIds) =>
                     IF ~row.deletedFlag
                     THEN /\ call = Call("markDeleteDetected", row.pageId, TRUE)
                          /\ r.deletedFlag /\ r.deleteDetectedAt = clock /\ ~r.archived
                     ELSE IF elapsed < G
                     THEN /\ call = NoCall
                          /\ r.deletedFlag /\ r.deleteDetectedAt = row.deleteDetectedAt
                          /\ ~r.archived
                     ELSE call = Call("archivePage", row.pageId, FALSE) /\ r.archived
               /\ r.archived =>
                     /\ row.deletedFlag /\ row.deleteDetectedAt # NoTime
                     /\ elapsed >= G

\* a row flagged by an earlier run is archived once the grace period has passed
C5_Witness ==
    /\ RowWorked(1) /\ ~loc[1].dryRun
    /\ call.op = "archivePage"
    /\ dest[LastRow(1).pageId].archived

\* C6: a real reconcile that finds the identifier of a flagged, not yet archived row
\* in the enumeration of the Source clears the checkbox and the detection time and
\* does not archive the row; no run archives a row whose identifier is in its
\* enumeration, or whose item is in the collection.
C6_Reappearance ==
    \A p \in Procs :
        (RowWorked(p) /\ ~loc[p].dryRun) =>
            LET row == LastRow(p)
                r == dest[row.pageId]
            IN /\ (row.deletedFlag /\ row.raindropId \in loc[p].raindropIds) =>
                     /\ call = Call("clearDeleteFlags", row.pageId, FALSE)
                     /\ ~r.deletedFlag /\ r.deleteDetectedAt = NoTime /\ ~r.archived
               /\ (r.archived \/ call.op = "archivePage") =>
                     /\ row.raindropId \notin loc[p].raindropIds
                     /\ source[row.raindropId].place # "here"

\* the item of a flagged row is back in the collection and the run has cleared the flags
C6_Witness ==
    /\ RowWorked(1) /\ ~loc[1].dryRun
    /\ LastRow(1).deletedFlag /\ LastRow(1).raindropId \in loc[1].raindropIds
    /\ call.op = "clearDeleteFlags"

\* the row the loop has worked on is a moved one: its identifier is not in the
\* enumeration and the detail check reports exists = true, removed = false
MovedRow(p) ==
    /\ RowWorked(p)
    /\ LastRow(p).raindropId \notin loc[p].raindropIds
    /\ ~Absent(LastRow(p))

\* C7 as stated: for a moved row the reconcile writes the collection field and the sync
\* timestamp of that row and nothing else.
C7_WritesCollectionOnly ==
    \A p \in Procs : MovedRow(p) => call.props \subseteq {"Collection", "Synced At"}

\* C7 amended: for a moved row the reconcile writes the collection field (and the sync
\* timestamp) when the row is unlocked and the run is real, and then, if the row was
\* flagged deleted, clears the checkbox and the detection time; it never sets either
\* of them and never archives the row.
C7_MovedNeverFlagged ==
    \A p \in Procs :
        MovedRow(p) =>
            LET row == LastRow(p)
                r == dest[row.pageId]
                first == pc[p] = "clear" \/ ~row.deletedFlag \/ row.locked
            IN /\ IF row.locked \/ loc[p].dryRun THEN call = NoCall
                  ELSE IF first THEN call = Call("updateCollectionOnly", row.pageId, FALSE)
                  ELSE call = Call("clearDeleteFlags", row.pageId, FALSE)
               /\ ~r.archived
               /\ r.deletedFlag => row.deletedFlag
               /\ r.deleteDetectedAt \in {row.deleteDetectedAt, NoTime}

\* a row flagged while its item was in the trash, whose item has since been moved to
\* another collection: the run has rewritten the collection and cleared the flags
C7_Witness ==
    /\ MovedRow(1) /\ pc[1] = "rows"
    /\ LastRow(1).deletedFlag
    /\ call.op = "clearDeleteFlags"
    /\ dest[LastRow(1).pageId].collection = "other"

\* C8: a real invocation that follows a dry run of the same kind and limit, with the
\* Source, the Destination, the configuration and the clock as the dry run saw them,
\* reports the same identifiers in every list of the summary; the dry run issued no
\* write.
C8_DryRunParity ==
    \A p \in Procs :
        ((SyncDone(p) \/ RecDone(p)) /\ ~loc[p].dryRun
           /\ prev.dryRun /\ prev.kind = loc[p].kind /\ prev.limitQP = loc[p].limitQP) =>
             /\ loc[p].out = prev.out
             /\ ~prev.wrote

\* a real run that wrote, after its dry run
C8_Witness ==
    /\ SyncDone(1) \/ RecDone(1)
    /\ ~loc[1].dryRun /\ loc[1].wrote
    /\ prev.dryRun /\ prev.kind = loc[1].kind /\ prev.out # NoOut

\* C9: no step of an invocation with dryRun set issues a write to the Destination or
\* changes the Destination.
C9_DryRunNoWrite ==
    [][\A p \in Procs : loc[p].dryRun => (dest' = dest /\ call' = NoCall)]_vars

\* a dry run that has classified a row to create, one to update and, in the
\* reconcile, one to flag
C9_Witness ==
    /\ loc[1].dryRun
    /\ \/ SyncDone(1) /\ loc[1].out.create # <<>> /\ loc[1].out.update # <<>>
       \/ RecDone(1) /\ loc[1].out.deleteDetected # <<>>

\* C10 as stated: every item of the collection created at or after the window start
\* is among the candidates the decision loop evaluates.
C10_WindowComplete ==
    \A p \in Procs :
        pc[p] = "decide" =>
            \A i \in InColl :
                source[i].created >= Since(loc[p].now) => i \in Range(loc[p].cand)

\* C11: the candidate list holds no identifier twice and no identifier outside the
\* pass-A and pass-B sets; when the cap does not cut the list, every identifier of
\* either set, and so every identifier of both, is in it exactly once.
C11_UnionCorrect ==
    \A p \in Procs :
        pc[p] = "decide" =>
            LET c == loc[p].cand
                A == Range(loc[p].passA)
                B == Range(loc[p].passB)
            IN /\ \A i, j \in 1..Len(c) : c[i] = c[j] => i = j
               /\ Range(c) \subseteq A \cup B
               /\ Cardinality(A \cup B) <= loc[p].limitQP =>
                     \A id \in A \cup B : Cardinality({i \in 1..Len(c) : c[i] = id}) = 1

\* an identifier found by both passes, another found by pass B only, no cut
C11_Witness ==
    /\ pc[1] = "decide"
    /\ Range(loc[1].passA) \cap Range(loc[1].passB) # {}
    /\ Range(loc[1].passB) \ Range(loc[1].passA) # {}
    /\ Len(loc[1].cand) = 2

\* C12 as stated: when a required setting (Source collection id, Source access token,
\* Destination token, Destination database id) is missing, an invocation issues no
\* call to the Source and no call to the Destination.
C12_NoCallWhenSettingMissing ==
    \A p \in Procs :
        cfg.missing # {} => ~loc[p].srcIO /\ ~loc[p].dstIO

\* C13: an invocation in which a listing or search page of the Source answers with a
\* non-success status is in its catch block, has issued no write to the Destination
\* and has classified nothing; the response it sends carries no summary.
C13_ListingFailureWriteFree ==
    /\ \A p \in Procs :
          loc[p].err = "listing" =>
              /\ pc[p] = "error"
              /\ ~loc[p].wrote
              /\ loc[p].out = NoOut
              /\ call = NoCall
    /\ prev.kind = "error" => prev.out = NoOut /\ ~prev.wrote

\* a real sync whose pass A found an item to create, failing in a search of pass B
C13_Witness ==
    /\ pc[1] = "error" /\ loc[1].err = "listing"
    /\ loc[1].kind = "sync" /\ ~loc[1].dryRun
    /\ loc[1].pagesB > 0
    /\ \E id \in Range(loc[1].passA) : LiveFor(id) = {}

\* C14 as stated: no failure of a per-item detail lookup makes the reconcile
\* invocation abort.
C14_DetailFailureNeverAborts ==
    \A p \in Procs : pc[p] = "error" => loc[p].err # "detail"

\* C15: when a create or update call has failed for the k-th candidate of a real sync,
\* the handler is in its catch block; no later candidate has been classified or
\* written; every earlier candidate the run created or updated has its row, holding
\* the item's last-modified time.
C15_NoErrorIsolation ==
    \A p \in Procs :
        loc[p].err = "write" =>
            LET l == loc[p]
                k == l.idx
                written == Range(l.out.create) \cup Range(l.out.update)
            IN /\ pc[p] = "error"
               /\ ~l.dryRun /\ k \in 1..Len(l.cand)
               /\ written \subseteq {l.cand[j] : j \in 1..(k - 1)}
               /\ \A j \in (k + 1)..Len(l.cand) :
                     IF l.cand[j] \in DOMAIN l.found
                     THEN dest[l.found[l.cand[j]].pageId].lastUpd
                              = l.found[l.cand[j]].raindropLastUpdate
                     ELSE LiveFor(l.cand[j]) = {}
               /\ \A id \in written :
                     \E i \in LiveFor(id) : dest[i].lastUpd = EffLast(source[id])

\* the write for the second candidate failed after the first candidate was created
C15_Witness ==
    /\ pc[1] = "error" /\ loc[1].err = "write"
    /\ loc[1].idx = 2 /\ Len(loc[1].cand) >= 2
    /\ loc[1].out.create # <<>>

\* C16: under a deletion mode other than 'archive' no row is ever archived and no
\* archive call is issued; for a flagged row whose item is absent and whose grace
\* period has elapsed, the reconcile records the identifier as skipped-locked and
\* issues no write.
C16_ModeOffNonDestructive ==
    DELETE_MODE # "archive" =>
        /\ \A i \in 1..Len(dest) : ~dest[i].archived
        /\ call.op # "archivePage"
        /\ \A p \in Procs :
              LET row == LastRow(p)
              IN (RowWorked(p) /\ row.raindropId \notin loc[p].raindropIds /\ Absent(row)
                    /\ row.deletedFlag /\ row.deleteDetectedAt # NoTime
                    /\ clock - row.deleteDetectedAt >= DELETE_GRACE_HOURS * HourMinutes) =>
                     /\ call = NoCall
                     /\ loc[p].out.skippedLocked # <<>>
                     /\ loc[p].out.skippedLocked[Len(loc[p].out.skippedLocked)] = row.raindropId
                     /\ row.raindropId \notin Range(loc[p].out.deleteArchivedNow)
                     /\ dest[row.pageId].deletedFlag
                     /\ dest[row.pageId].deleteDetectedAt = row.deleteDetectedAt

\* mode 'off': a real reconcile has gone past an unlocked flagged row whose grace
\* period has elapsed
C16_Witness ==
    /\ DELETE_MODE = "off"
    /\ RowWorked(1) /\ ~loc[1].dryRun
    /\ ~LastRow(1).locked /\ LastRow(1).deletedFlag /\ Absent(LastRow(1))
    /\ clock - LastRow(1).deleteDetectedAt >= DELETE_GRACE_HOURS * HourMinutes
    /\ LastRow(1).raindropId \in Range(loc[1].out.skippedLocked)

\* C17: with two sync invocations interleaved at their awaits, a run never creates a
\* row for an identifier that had a row when the run started, so an identifier whose
\* row exists before both runs start keeps exactly one row. (That both runs create a
\* row for the same new identifier is the witness.)
C17_ExistingNeverDuplicated ==
    /\ \A p \in Procs : Range(loc[p].out.create) \cap loc[p].known = {}
    /\ Cardinality(LiveFor(1)) = 1

\* both runs looked the new identifier up before either created it; both created a
\* row; the Destination holds two non-archived rows for it
C17_Witness ==
    /\ \A p \in Procs :
          /\ pc[p] = "decide" /\ ~loc[p].dryRun
          /\ 2 \in Range(loc[p].out.create)
          /\ 2 \notin loc[p].known
    /\ Cardinality(LiveFor(2)) = 2

\* C18 as stated: in a sync invocation with no limit parameter the stop reason of
\* pass A is never the cap reason 'debug-limit'.
C18_CapStopOnlyWithCap ==
    \A p \in Procs :
        (loc[p].kind = "sync" /\ ~loc[p].capped) => loc[p].stopA # "debug-limit"

\* C19 as stated: with a caller-supplied cap the decision loop evaluates at most that
\* many candidates; with no cap supplied it evaluates every identifier of the union
\* of pass A and pass B.
C19_CutOnlyWithCap ==
    \A p \in Procs :
        pc[p] = "decide" =>
            IF loc[p].capped THEN Len(loc[p].cand) <= loc[p].limitQP
            ELSE Range(loc[p].cand) = Range(loc[p].passA) \cup Range(loc[p].passB)

\* C20: at every point of pass A (and after it) consecutiveExisting is the number of
\* most recently scanned items, across pages, that were all found in the Destination
\* since the last one not found; the scan never goes past an item at which rule (c)
\* holds; the stop reason is the window-and-consecutive one exactly when rule (c)
\* holds at the last scanned item, which is then older than since.
C20_StopRuleC ==
    \A p \in Procs :
        loc[p].kind = "sync" =>
            LET sc == loc[p].scanned
                n == Len(sc)
                since == Since(loc[p].now)
            IN /\ loc[p].consec = HitRun(sc, n)
               /\ pc[p] \in {"passA", "passB1", "passB2", "lookup"} =>
                     \A k \in 1..n : sc[k].hit <=> LiveFor(sc[k].id) # {}
               /\ \A k \in 1..(n - 1) : ~RuleC(sc, k, since)
               /\ loc[p].stopA = "time-window-and-consecutive-existing"
                     <=> (n > 0 /\ RuleC(sc, n, since))
               /\ loc[p].stopA = "time-window-and-consecutive-existing"
                     => source[sc[n].id].created < since

\* pass A stopped by rule (c) at its second page: the first item was inside the window
\* and found, the second is older than the window and found
C20_Witness ==
    /\ loc[1].stopA = "time-window-and-consecutive-existing"
    /\ loc[1].pagesA = 2 /\ Len(loc[1].scanned) = 2
    /\ loc[1].consec = 2
    /\ source[loc[1].scanned[1].id].created >= Since(loc[1].now)

----------------------------------------------------------------------------
\* C21 (bounded scans and termination): a sync invocation fetches at most MAX_PAGES pages
\* in pass A and in each of the two pass-B searches, a reconcile at most its MAX_PAGES
\* pages of the enumeration; a scan goes past a page only if that page was full; pass A
\* ends with no stop reason ('completed') exactly when it fetched MAX_PAGES pages, the
\* last one full, the debug limit not in force and stop rule (c) not met; the response
\* is sent at the end of the loop only, and every invocation that started sends it.
AfterPassA(p) == loc[p].kind = "sync" /\ pc[p] \in {"passB1", "passB2", "lookup", "decide"}

BudgetRanOut(p) ==
    LET l == loc[p]
    IN /\ l.pagesA = MAX_PAGES
       /\ Len(fetchRecentRaindrops(PerPageA(l.limitQP), MAX_PAGES - 1)) = PerPageA(l.limitQP)
       /\ ~(l.limitQP # 0 /\ l.limitQP <= PER_PAGE)
       /\ \A k \in 1..Len(l.scanned) : ~RuleC(l.scanned, k, Since(l.now))

C21_Bounded(p) ==
    LET l == loc[p]
        d == isoDateOnly(Since(l.now))
    IN /\ pc[p] = "passA" =>
            /\ l.page < MAX_PAGES /\ l.pagesA = l.page /\ l.stopA = ""
            /\ l.page > 0 =>
                  Len(fetchRecentRaindrops(PerPageA(l.limitQP), l.page - 1)) = PerPageA(l.limitQP)
       /\ l.kind = "sync" => l.pagesA <= MAX_PAGES /\ l.pagesB <= 2 * MAX_PAGES
       /\ pc[p] = "passB1" =>
            /\ l.page < MAX_PAGES /\ l.pagesB = l.page
            /\ l.page > 0 =>
                  Len(fetchRaindropsBySearch("lastUpdate", d, PER_PAGE, l.page - 1)) >= PER_PAGE
       /\ pc[p] = "passB2" =>
            /\ l.page < MAX_PAGES /\ l.pagesB - l.page <= MAX_PAGES
            /\ l.page > 0 =>
                  Len(fetchRaindropsBySearch("created", d, PER_PAGE, l.page - 1)) >= PER_PAGE
       /\ pc[p] = "enum" =>
            /\ l.page < MAX_PAGES_REC /\ l.pagesA = l.page
            /\ l.page > 0 => Len(fetchRecentRaindrops(PER_PAGE, l.page - 1)) >= PER_PAGE
       /\ l.kind = "reconcile" => l.pagesA <= MAX_PAGES_REC
       /\ AfterPassA(p) => (l.stopA = "" <=> BudgetRanOut(p))

C21_BoundedScansAndResponse ==
    /\ [](\A p \in Procs : C21_Bounded(p))
    /\ [][\A p \in Procs : pc[p] # "idle" /\ pc'[p] = "idle" => SyncDone(p) \/ RecDone(p)]_vars
    /\ \A p \in Procs : pc[p] # "idle" ~> pc[p] = "idle"

\* a sync whose pass A used up its page budget with no stop rule met has run to its end,
\* and one of its pass-B searches used up its budget as well
C21_Witness ==
    /\ SyncDone(1) /\ loc[1].stopA = "" /\ loc[1].pagesA = MAX_PAGES
    /\ loc[1].pagesB = 2 * MAX_PAGES


----------------------------------------------------------------------------
\* C22 (reappeared locked row): when a reconcile run has worked on a row that was listed
\* locked and flagged deleted and whose identifier is in the enumeration of the
\* collection, it has issued no write, the row's deletedFlag and deleteDetectedAt are as
\* they were listed, and the identifier is the last of skippedLocked and is not in
\* clearedFlags.
C22_ReappearedLockedUntouched ==
    \A p \in Procs :
        (RowWorked(p) /\ loc[p].kind = "reconcile") =>
            LET row == LastRow(p)
                out == loc[p].out
            IN (row.locked /\ row.deletedFlag /\ row.raindropId \in loc[p].raindropIds) =>
                  /\ call = NoCall
                  /\ dest[row.pageId].deletedFlag = row.deletedFlag
                  /\ dest[row.pageId].deleteDetectedAt = row.deleteDetectedAt
                  /\ out.skippedLocked # <<>>
                  /\ out.skippedLocked[Len(out.skippedLocked)] = row.raindropId
                  /\ row.raindropId \notin Range(out.clearedFlags)


----------------------------------------------------------------------------
\* C23 (delete fields move together): every row of the Destination, archived or not, has
\* deletedFlag set exactly when deleteDetectedAt is set, in every state of every sequence
\* of sync and reconcile invocations, those aborted between two writes included.
C23_DeleteFieldsTogether ==
    \A k \in 1..Len(dest) : dest[k].deletedFlag <=> dest[k].deleteDetectedAt # NoTime

\* a real reconcile is between the two writes of its moved branch, on a row that is
\* still flagged: the run may be aborted here
C23_Witness ==
    /\ pc[1] = "clear" /\ ~loc[1].dryRun
    /\ call.op = "updateCollectionOnly"
    /\ dest[call.page].deletedFlag /\ dest[call.page].deleteDetectedAt # NoTime


----------------------------------------------------------------------------
\* C24 (first detection): when a real reconcile works on a row whose item is absent from
\* the Source and which is not yet flagged (or has no detection date), it issues one
\* markDeleteDetected call that sends the flag, the date and the sync timestamp; the row
\* then has deletedFlag set and deleteDetectedAt equal to the current time, locked or
\* not; Status is sent, and becomes "Archived", if and only if the row is unlocked (the
\* Status of a locked row stays as it was).
FirstDetection(p) ==
    /\ pc[p] = "rows" /\ loc[p].kind = "reconcile" /\ ~loc[p].dryRun
    /\ loc[p].idx <= Len(loc[p].rows)
    /\ LET row == loc[p].rows[loc[p].idx]
       IN /\ row.raindropId \notin loc[p].raindropIds
          /\ Absent(row)
          /\ ~row.deletedFlag \/ row.deleteDetectedAt = NoTime

----------------------------------------------------------------------------
\* C25 (within grace nothing is written): when a reconcile run has worked on a row that
\* was listed flagged with a detection date less than the grace period ago, and whose
\* item is absent from the Source, it has issued no write, the row's delete fields are
\* as listed and the identifier is reported in deleteDetected; and no step of any
\* invocation changes the detection date of a row that stays flagged, so the grace
\* period runs from the first detection.
WithinGrace(p) ==
    /\ pc[p] = "rows" /\ loc[p].kind = "reconcile" /\ loc[p].idx > 1
    /\ LET row == LastRow(p)
       IN /\ row.deletedFlag /\ row.deleteDetectedAt # NoTime
          /\ row.raindropId \notin loc[p].raindropIds
          /\ Absent(row)
          /\ clock - row.deleteDetectedAt < DELETE_GRACE_HOURS * HourMinutes

C25_WithinGraceNoWrite ==
    /\ [](\A p \in Procs :
            WithinGrace(p) =>
                LET row == LastRow(p)
                    out == loc[p].out
                IN /\ call = NoCall
                   /\ dest[row.pageId].deletedFlag
                   /\ dest[row.pageId].deleteDetectedAt = row.deleteDetectedAt
                   /\ out.deleteDetected # <<>>
                   /\ out.deleteDetected[Len(out.deleteDetected)] = row.raindropId)
    /\ [][\A k \in 1..Len(dest) :
             (dest[k].deletedFlag /\ dest'[k].deletedFlag) =>
                 dest'[k].deleteDetectedAt = dest[k].deleteDetectedAt]_vars

\* half a day after the detection, with a grace period of a day, a real reconcile has
\* worked on the flagged row and left it alone
C25_Witness ==
    /\ WithinGrace(1) /\ ~loc[1].dryRun
    /\ clock > LastRow(1).deleteDetectedAt
    /\ call = NoCall
    /\ dest[LastRow(1).pageId].deleteDetectedAt = LastRow(1).deleteDetectedAt


----------------------------------------------------------------------------
\* C26 (eventual archive is terminal): for an unlocked row whose item stays missing from
\* the Source, under deletion mode 'archive', with real reconcile runs recurring and time
\* advancing: the row is eventually flagged; once it is flagged with the end of its
\* grace period within the hours the specification covers, it is eventually archived;
\* and an archived row is never changed, never the target of a write call, and never
\* in the rows a reconcile lists.
StaysMissing(k) ==
    IF k > Len(dest) THEN FALSE
    ELSE /\ source[dest[k].rid].place \in {"trash", "gone"}
         /\ ~dest[k].locked
         /\ DELETE_MODE = "archive"

Flagged(k) == IF k > Len(dest) THEN FALSE ELSE dest[k].deletedFlag
Archived(k) == IF k > Len(dest) THEN FALSE ELSE dest[k].archived

GraceEndsInTime(k) ==
    IF ~Flagged(k) THEN FALSE
    ELSE /\ dest[k].deleteDetectedAt # NoTime
         /\ dest[k].deleteDetectedAt + DELETE_GRACE_HOURS * HourMinutes <= NightlyLast

ArchivedIsFinal ==
    /\ \A k \in 1..Len(dest) :
          dest[k].archived => dest'[k] = dest[k] /\ call'.page # k
    /\ \A p \in Procs :
          (pc[p] = "list" /\ pc'[p] = "rows") =>
              \A i \in 1..Len(loc'[p].rows) : ~dest[loc'[p].rows[i].pageId].archived

C26_EventualArchiveTerminal ==
    /\ \A k \in 1..MaxItems :
          (StaysMissing(k) /\ ~Archived(k)) ~> Flagged(k)
    /\ \A k \in 1..MaxItems :
          (StaysMissing(k) /\ GraceEndsInTime(k)) ~> Archived(k)
    /\ [][ArchivedIsFinal]_vars

\* a real reconcile that started after the row of the missing item was archived has run
\* to its end: it listed the other row only and wrote nothing
C26_Witness ==
    /\ StaysMissing(2) /\ dest[2].archived
    /\ RecDone(1) /\ ~loc[1].dryRun
    /\ \A i \in 1..Len(loc[1].rows) : loc[1].rows[i].pageId # 2
    /\ ~loc[1].wrote


----------------------------------------------------------------------------
\* C27 (stored last-modified is monotonic): a create leaves an unlocked row whose stored
\* last-modified is the item's effective one (lastUpdate, or created when absent); an
\* update leaves the stored value equal to the item's effective last-modified; no step
\* of any invocation lowers the stored last-modified of a row; and the stored value of
\* a row never exceeds the effective last-modified of its item, as long as the item
\* exists in the Source.
C27_StoredLastModified ==
    [][/\ \A k \in 1..Len(dest) : dest'[k].lastUpd >= dest[k].lastUpd
       /\ \A k \in 1..Len(dest') :
             source'[dest'[k].rid].place \notin {"unborn", "gone"} =>
                 dest'[k].lastUpd <= EffLast(source'[dest'[k].rid])
       /\ (call'.op = "create" /\ Len(dest') = Len(dest) + 1) =>
             /\ ~dest'[call'.page].locked
             /\ dest'[call'.page].lastUpd = EffLast(source[dest'[call'.page].rid])
       /\ (call'.op = "update" /\ dest' # dest) =>
             dest'[call'.page].lastUpd = EffLast(source[dest[call'.page].rid])]_vars

\* a real sync has just updated the row of an edited item: the stored value moved from
\* the item's creation time up to its lastUpdate
C27_Witness ==
    /\ call.op = "update" /\ pc[1] = "decide"
    /\ dest[call.page].lastUpd = source[dest[call.page].rid].lastUpdate
    /\ dest[call.page].lastUpd > source[dest[call.page].rid].created


----------------------------------------------------------------------------
\* C28 (update frame): a sync update of an existing row sends only the mapped content
\* fields (Title, URL, Tags, Excerpt, Notes, Site, Created, Collection), the stored
\* last-modified and the sync timestamp; the row's Status, Lock, deletedFlag,
\* deleteDetectedAt, Raindrop ID and archived state are as before, and no other row
\* changes.
MappedFields == ContentProps \cup {"Collection"}

C28_UpdateFrame ==
    [][\A p \in Procs :
          (pc[p] = "decide" /\ loc'[p].idx = loc[p].idx + 1 /\ call'.op = "update") =>
              LET k == call'.page
              IN /\ k \in 1..Len(dest) /\ Len(dest') = Len(dest)
                 /\ call'.props \subseteq MappedFields \cup {"Raindrop LastUpdate", "Synced At"}
                 /\ dest'[k].status = dest[k].status
                 /\ dest'[k].locked = dest[k].locked
                 /\ dest'[k].deletedFlag = dest[k].deletedFlag
                 /\ dest'[k].deleteDetectedAt = dest[k].deleteDetectedAt
                 /\ dest'[k].rid = dest[k].rid
                 /\ dest'[k].archived = dest[k].archived
                 /\ \A j \in 1..Len(dest) : j # k => dest'[j] = dest[j]]_vars

\* a sync has just updated the row whose Status the user had set: the content is the
\* edited item's, the Status is still the user's
C28_Witness ==
    /\ pc[1] = "decide" /\ call.op = "update"
    /\ dest[call.page].status = "Read"
    /\ dest[call.page].content = source[dest[call.page].rid].lastUpdate
    /\ dest[call.page].content # NoTime


----------------------------------------------------------------------------
\* C29 (collection-title resolution never fails the run): no invocation is in its catch
\* block because a collection-title lookup failed; a lookup that fails gives no title
\* and the loop goes on with the candidate and the remaining ones.
C29_TitleFailureNeverAborts ==
    \A p \in Procs : pc[p] = "error" => loc[p].err # "title"


----------------------------------------------------------------------------
\* C30 (pacing of mutating calls): in an invocation, no write call (create, update,
\* collection-only update, flag, clear, archive) is issued while an earlier write of the
\* invocation has had no delay after it; and a delay is waited for only in a real run
\* and only by a step that issued a write.
C30_WritesPaced ==
    [][\A p \in Procs :
          /\ (pc[p] # "idle" /\ loc'[p] # loc[p] /\ call' # NoCall) => ~loc[p].unpaced
          /\ loc'[p].paces > loc[p].paces => ~loc[p].dryRun /\ call' # NoCall]_vars

============================================================================
